---- MODULE Spec2Model ----
(***************************************************************************)
(* DC circuit simulator (Modified Nodal Analysis): the Circuit object, its *)
(* add_* operations, assemble_mna, solve and parse_value of                *)
(* src/src/circuit_sim.py.                                                 *)
(*                                                                         *)
(* Python strings are sequences of one-character strings, so that upper(), *)
(* sorted() and the regular expression of parse_value act on characters.   *)
(* Python floats are exact rationals <<numerator, denominator>>: rounding  *)
(* is not modelled, NaN is the extra value NaN.                            *)
(***************************************************************************)
EXTENDS Integers, Sequences, FiniteSets, TLC

VARIABLES resistors, vsources, isources, nodes, call, outcome, HAS_SCIPY, token, parsed,
          lines, loaded

vars ==
    <<resistors, vsources, isources, nodes, call, outcome, HAS_SCIPY, token, parsed,
      lines, loaded>>

(***************************************************************************)
(* Bounds of the model.                                                    *)
(***************************************************************************)
MaxElems == 3
MaxR == 2
MaxV == 1
MaxI == 1
MaxGndElems == 2
MaxLarge == 52
MaxLargeR == 2
MaxTokenLen == 4
MaxLines == 3
MaxSrcElems == 3
MaxSrcR == 2
MaxSrcV == 2
MaxSrcI == 1

(***************************************************************************)
(* Characters and strings.                                                 *)
(***************************************************************************)
DigitChars == <<"0", "1", "2", "3", "4", "5", "6", "7", "8", "9">>
UpperChars == <<"A", "B", "C", "D", "E", "F", "G", "H", "I", "J", "K", "L", "M",
                "N", "O", "P", "Q", "R", "S", "T", "U", "V", "W", "X", "Y", "Z">>
LowerChars == <<"a", "b", "c", "d", "e", "f", "g", "h", "i", "j", "k", "l", "m",
                "n", "o", "p", "q", "r", "s", "t", "u", "v", "w", "x", "y", "z">>

IndexIn(c, s) == CHOOSE i \in 1..Len(s) : s[i] = c
IsIn(c, s) == \E i \in 1..Len(s) : s[i] = c

\* ord(c): the code point of a character
Ord(c) ==
    IF IsIn(c, DigitChars) THEN 47 + IndexIn(c, DigitChars)
    ELSE IF IsIn(c, UpperChars) THEN 64 + IndexIn(c, UpperChars)
    ELSE IF IsIn(c, LowerChars) THEN 96 + IndexIn(c, LowerChars)
    ELSE IF c = "%" THEN 37
    ELSE IF c = "+" THEN 43
    ELSE IF c = "-" THEN 45
    ELSE IF c = "." THEN 46
    ELSE 181

\* str.upper()
CharUpper(c) == IF IsIn(c, LowerChars) THEN UpperChars[IndexIn(c, LowerChars)] ELSE c
StrUpper(s) == [i \in 1..Len(s) |-> CharUpper(s[i])]

\* s < t for Python strings: lexicographic by code point
RECURSIVE StrLess(_, _)
StrLess(s, t) ==
    IF t = <<>> THEN FALSE
    ELSE IF s = <<>> THEN TRUE
    ELSE IF Ord(Head(s)) # Ord(Head(t)) THEN Ord(Head(s)) < Ord(Head(t))
    ELSE StrLess(Tail(s), Tail(t))

\* sorted(S) for a set of strings
RECURSIVE Sorted(_)
Sorted(S) ==
    IF S = {} THEN <<>>
    ELSE LET m == CHOOSE x \in S : \A y \in S \ {x} : StrLess(x, y)
         IN <<m>> \o Sorted(S \ {m})

GROUND == <<"0">>
GND == <<"G", "N", "D">>

(***************************************************************************)
(* Rational arithmetic, standing for float arithmetic.                     *)
(***************************************************************************)
Abs(x) == IF x < 0 THEN -x ELSE x

RECURSIVE GCD(_, _)
GCD(a, b) == IF b = 0 THEN a ELSE GCD(b, a % b)

Norm(n, d) ==
    LET g == GCD(Abs(n), Abs(d))
        s == IF d < 0 THEN -1 ELSE 1
    IN IF n = 0 THEN <<0, 1>> ELSE <<s * (n \div g), s * (d \div g)>>

Rat(n) == <<n, 1>>
Zero == <<0, 1>>
One == <<1, 1>>
NaN == <<0, 0>>

RAdd(a, b) ==
    LET g == GCD(a[2], b[2])
    IN Norm(a[1] * (b[2] \div g) + b[1] * (a[2] \div g), (a[2] \div g) * b[2])
RNeg(a) == <<-a[1], a[2]>>
RSub(a, b) == RAdd(a, RNeg(b))
RMul(a, b) ==
    LET x == Norm(a[1], b[2])
        y == Norm(b[1], a[2])
    IN Norm(x[1] * y[1], x[2] * y[2])
RInv(a) == Norm(a[2], a[1])
RDiv(a, b) == RMul(a, RInv(b))
RAbs(a) == <<Abs(a[1]), a[2]>>
RLess(a, b) == a[1] * b[2] < b[1] * a[2]

\* float arithmetic with NaN propagation
FSub(a, b) == IF a = NaN \/ b = NaN THEN NaN ELSE RSub(a, b)
FDiv(a, b) == IF a = NaN \/ b = NaN THEN NaN ELSE RDiv(a, b)

(***************************************************************************)
(* Circuit: element records and the add_* operations.                      *)
(***************************************************************************)
Resistor(name, n1, n2, value) == [name |-> name, n1 |-> n1, n2 |-> n2, value |-> value]
VSource(name, n_plus, n_minus, value) ==
    [name |-> name, n_plus |-> n_plus, n_minus |-> n_minus, value |-> value]
ISource(name, n_plus, n_minus, value) ==
    [name |-> name, n_plus |-> n_plus, n_minus |-> n_minus, value |-> value]

NoResult == [status |-> "none"]

\* _add_node registering the reference node along with every label
_add_node_WithGround(ns, node) ==
    ns \cup {IF StrUpper(node) = <<"G", "N", "D">> THEN <<"0">> ELSE node} \cup {<<"0">>}

\* Circuit._add_node: the node set after registering one label
_add_node(ns, node) == ns \cup {IF StrUpper(node) = GND THEN GROUND ELSE node}

add_resistor(name, n1, n2, R) ==
    /\ resistors' = Append(resistors, Resistor(name, n1, n2, R))
    /\ nodes' = _add_node(_add_node(nodes, n1), n2)
    /\ call' = "add"
    /\ outcome' = NoResult
    /\ UNCHANGED <<vsources, isources, HAS_SCIPY, token, parsed, lines, loaded>>

add_vsource(name, n_plus, n_minus, V) ==
    /\ vsources' = Append(vsources, VSource(name, n_plus, n_minus, V))
    /\ nodes' = _add_node(_add_node(nodes, n_plus), n_minus)
    /\ call' = "add"
    /\ outcome' = NoResult
    /\ UNCHANGED <<resistors, isources, HAS_SCIPY, token, parsed, lines, loaded>>

add_isource(name, n_plus, n_minus, I) ==
    /\ isources' = Append(isources, ISource(name, n_plus, n_minus, I))
    /\ nodes' = _add_node(_add_node(nodes, n_plus), n_minus)
    /\ call' = "add"
    /\ outcome' = NoResult
    /\ UNCHANGED <<resistors, vsources, HAS_SCIPY, token, parsed, lines, loaded>>

(***************************************************************************)
(* Circuit.node_index_map.  Indices are 1-based here: Python's index i is  *)
(* i + 1.                                                                  *)
(***************************************************************************)
\* NodesAfterIndexMap setting the node set to the reference node alone
NodesAfterIndexMap_Reset(ns) == IF GROUND \notin ns THEN {GROUND} ELSE ns

\* the node set after the call: '0' is added when missing
NodesAfterIndexMap(ns) == IF GROUND \notin ns THEN ns \cup {GROUND} ELSE ns

\* Unknowns taken from the node set as it was, the reference node not excluded
Unknowns_NoFilter(ns) == Sorted(ns)

\* unknowns = sorted([n for n in self.nodes if n != '0'])
Unknowns(ns) == Sorted({n \in NodesAfterIndexMap(ns) : n # GROUND})

\* idx = {n: i for i, n in enumerate(unknowns)}
IdxMap(unknowns) ==
    [n \in {unknowns[i] : i \in 1..Len(unknowns)} |-> IndexIn(n, unknowns)]

(***************************************************************************)
(* Circuit.assemble_mna.                                                   *)
(***************************************************************************)
ZeroMatrix(rows, cols) == [i \in 1..rows |-> [j \in 1..cols |-> Zero]]
AddAt(Mx, i, j, x) == [Mx EXCEPT ![i][j] = RAdd(@, x)]

\* the exception one resistor raises while it is stamped, if any
ResistorError(r, idx) ==
    IF r.value = Zero THEN "ZeroDivisionError"
    ELSE IF r.n1 # GROUND /\ r.n1 \notin DOMAIN idx THEN "KeyError"
    ELSE IF r.n2 # GROUND /\ r.n2 \notin DOMAIN idx THEN "KeyError"
    ELSE "none"

\* the exception one source raises while it is stamped, if any
SourceError(src, idx) ==
    IF src.n_plus # GROUND /\ src.n_plus \notin DOMAIN idx THEN "KeyError"
    ELSE IF src.n_minus # GROUND /\ src.n_minus \notin DOMAIN idx THEN "KeyError"
    ELSE "none"

RECURSIVE FirstError(_)
FirstError(errs) ==
    IF errs = <<>> THEN "none"
    ELSE IF Head(errs) # "none" THEN Head(errs)
    ELSE FirstError(Tail(errs))

\* the first exception of the three stamping loops, in the order they run
AssembleError(rs, vs, is, idx) ==
    FirstError([k \in 1..Len(rs) |-> ResistorError(rs[k], idx)]
               \o [k \in 1..Len(is) |-> SourceError(is[k], idx)]
               \o [k \in 1..Len(vs) |-> SourceError(vs[k], idx)])

\* StampResistor without the off-diagonal terms
StampResistor_DiagonalOnly(G, r, idx) ==
    LET g == RDiv(One, r.value)
        G1 == IF r.n1 # GROUND THEN AddAt(G, idx[r.n1], idx[r.n1], g) ELSE G
    IN IF r.n2 # GROUND THEN AddAt(G1, idx[r.n2], idx[r.n2], g) ELSE G1

\* StampResistor with G[i,j] -= g alone, without G[j,i] -= g
StampResistor_OneSided(G, r, idx) ==
    LET g == RDiv(One, r.value)
        G1 == IF r.n1 # GROUND THEN AddAt(G, idx[r.n1], idx[r.n1], g) ELSE G
        G2 == IF r.n2 # GROUND THEN AddAt(G1, idx[r.n2], idx[r.n2], g) ELSE G1
    IN IF r.n1 # GROUND /\ r.n2 # GROUND
       THEN AddAt(G2, idx[r.n1], idx[r.n2], RNeg(g))
       ELSE G2

\* one resistor stamped into G
StampResistor(G, r, idx) ==
    LET g == RDiv(One, r.value)
        G1 == IF r.n1 # GROUND THEN AddAt(G, idx[r.n1], idx[r.n1], g) ELSE G
        G2 == IF r.n2 # GROUND THEN AddAt(G1, idx[r.n2], idx[r.n2], g) ELSE G1
    IN IF r.n1 # GROUND /\ r.n2 # GROUND
       THEN AddAt(AddAt(G2, idx[r.n1], idx[r.n2], RNeg(g)), idx[r.n2], idx[r.n1], RNeg(g))
       ELSE G2

\* for r in self.resistors; with no unknown every terminal is '0' and nothing is stamped
RECURSIVE StampResistors(_, _, _)
StampResistors(G, rs, idx) ==
    IF rs = <<>> \/ G = <<>> THEN G
    ELSE StampResistors(StampResistor(G, Head(rs), idx), Tail(rs), idx)

\* StampISource with the two signs exchanged
StampISource_Injecting(Ivec, src, idx) ==
    LET I1 == IF src.n_plus # GROUND
              THEN [Ivec EXCEPT ![idx[src.n_plus]] = RAdd(@, src.value)] ELSE Ivec
    IN IF src.n_minus # GROUND
       THEN [I1 EXCEPT ![idx[src.n_minus]] = RSub(@, src.value)] ELSE I1

\* one current source stamped into Ivec
StampISource(Ivec, src, idx) ==
    LET I1 == IF src.n_plus # GROUND
              THEN [Ivec EXCEPT ![idx[src.n_plus]] = RSub(@, src.value)] ELSE Ivec
    IN IF src.n_minus # GROUND
       THEN [I1 EXCEPT ![idx[src.n_minus]] = RAdd(@, src.value)] ELSE I1

\* for s in self.isources; with no unknown every terminal is '0' and nothing is stamped
RECURSIVE StampISources(_, _, _)
StampISources(Ivec, is, idx) ==
    IF is = <<>> \/ Ivec = <<>> THEN Ivec
    ELSE StampISources(StampISource(Ivec, Head(is), idx), Tail(is), idx)

\* B[i][k] after the two assignments for voltage source k
BEntry(src, idx, i) ==
    IF src.n_minus # GROUND /\ idx[src.n_minus] = i THEN RNeg(One)
    ELSE IF src.n_plus # GROUND /\ idx[src.n_plus] = i THEN One
    ELSE Zero

\* A * x = z: [[G, B], [B^T, 0]] and [Ivec; E] when M > 0, else G and Ivec
MountSystem(G, Ivec, vs, idx, N, M) ==
    [A |-> [i \in 1..(N + M) |-> [j \in 1..(N + M) |->
               IF i <= N /\ j <= N THEN G[i][j]
               ELSE IF i <= N THEN BEntry(vs[j - N], idx, i)
               ELSE IF j <= N THEN BEntry(vs[i - N], idx, j)
               ELSE Zero]],
     z |-> [i \in 1..(N + M) |-> IF i <= N THEN Ivec[i] ELSE vs[i - N].value]]

\* the three stamping loops over an index map, then the system
AssembleOver(rs, vs, is, unknowns, idx) ==
    IF AssembleError(rs, vs, is, idx) # "none"
    THEN [error |-> AssembleError(rs, vs, is, idx)]
    ELSE [error |-> "none", idx_map |-> idx, nodes |-> unknowns]
         @@ MountSystem(StampResistors(ZeroMatrix(Len(unknowns), Len(unknowns)), rs, idx),
                        StampISources([i \in 1..Len(unknowns) |-> Zero], is, idx),
                        vs, idx, Len(unknowns), Len(vs))

AssembleUnknowns(rs, vs, is, unknowns) == AssembleOver(rs, vs, is, unknowns, IdxMap(unknowns))

\* what assemble_mna returns (A, z, idx_map, nodes) or raises (error)
assemble_mna(rs, vs, is, ns) == AssembleUnknowns(rs, vs, is, Unknowns(ns))

(***************************************************************************)
(* The linear solvers.  np.linalg.solve is LAPACK gesv: LU factorisation   *)
(* with partial pivoting, then substitution; a zero pivot is LinAlgError.  *)
(***************************************************************************)
\* the first row of k..n whose entry in column k is largest in magnitude
PivotRow(Mx, n, k) ==
    CHOOSE p \in k..n :
        \A q \in k..n :
            \/ RLess(RAbs(Mx[q][k]), RAbs(Mx[p][k]))
            \/ RAbs(Mx[q][k]) = RAbs(Mx[p][k]) /\ p <= q

RECURSIVE Forward(_, _, _)
Forward(Mx, n, k) ==
    IF k > n THEN [singular |-> FALSE, M |-> Mx]
    ELSE LET p == PivotRow(Mx, n, k)
         IN IF Mx[p][k] = Zero THEN [singular |-> TRUE, M |-> Mx]
            ELSE LET Sw == [Mx EXCEPT ![k] = Mx[p], ![p] = Mx[k]]
                     El == [i \in 1..n |->
                              IF i <= k \/ Sw[i][k] = Zero THEN Sw[i]
                              ELSE LET f == RDiv(Sw[i][k], Sw[k][k])
                                   IN [j \in 1..(n + 1) |->
                                         RSub(Sw[i][j], RMul(f, Sw[k][j]))]]
                 IN Forward(El, n, k + 1)

RECURSIVE RowDot(_, _, _, _)
\* sum of U[j] * x[j] for j in from..n
RowDot(U, x, from, n) ==
    IF from > n THEN Zero ELSE RAdd(RMul(U[from], x[from]), RowDot(U, x, from + 1, n))

RECURSIVE BackSubst(_, _, _, _)
BackSubst(Mx, n, i, x) ==
    IF i < 1 THEN x
    ELSE BackSubst(Mx, n, i - 1,
           [x EXCEPT ![i] = RDiv(RSub(Mx[i][n + 1], RowDot(Mx[i], x, i + 1, n)), Mx[i][i])])

Factorise(A, z) ==
    Forward([i \in 1..Len(A) |-> [j \in 1..(Len(A) + 1) |->
                IF j <= Len(A) THEN A[i][j] ELSE z[i]]], Len(A), 1)

Substitute(lu, n) == BackSubst(lu.M, n, n, [i \in 1..n |-> Zero])

\* a factorisation read as np.linalg.solve does: LinAlgError on a singular matrix
DenseResult(lu, n) ==
    IF lu.singular THEN [error |-> "LinAlgError"]
    ELSE [error |-> "none", sol |-> Substitute(lu, n)]

\* a factorisation read as scipy's spsolve does: on an exactly singular matrix it
\* warns (MatrixRankWarning) and returns the vector filled with NaN; it raises nothing
SparseResult(lu, n) ==
    IF lu.singular THEN [error |-> "none", sol |-> [i \in 1..n |-> NaN]]
    ELSE [error |-> "none", sol |-> Substitute(lu, n)]

\* np.linalg.solve(A, z)
linalg_solve(A, z) == DenseResult(Factorise(A, z), Len(A))

\* spsolve(sparse.csr_matrix(A), z)
spsolve(A, z) == SparseResult(Factorise(A, z), Len(A))

\* the size above which solve takes the sparse path
SparseThreshold == 50

(***************************************************************************)
(* Circuit.solve: result extraction.                                       *)
(***************************************************************************)
\* Voltages without the entry of the reference node
Voltages_NoGround(idx, Vsol) == [n \in DOMAIN idx |-> Vsol[idx[n]]]

\* voltages = {'0': 0.0}; then voltages[n] = Vsol[i] for every n, i of idx_map
Voltages(idx, Vsol) == [n \in DOMAIN idx |-> Vsol[idx[n]]] @@ (GROUND :> Zero)

\* voltages.get(n, 0.0)
VoltageGet(voltages, n) == IF n \in DOMAIN voltages THEN voltages[n] ELSE Zero

\* ResCurrents keeping the entry of the first resistor of a name
RECURSIVE ResCurrents_FirstWins(_, _, _)
ResCurrents_FirstWins(rs, voltages, acc) ==
    IF rs = <<>> THEN acc
    ELSE LET r == Head(rs)
             I_R == FDiv(FSub(VoltageGet(voltages, r.n1), VoltageGet(voltages, r.n2)), r.value)
         IN ResCurrents_FirstWins(Tail(rs), voltages,
                                  acc @@ (r.name :> <<I_R, r.n1, r.n2, r.value>>))

\* res_currents[r.name] = (I_R, r.n1, r.n2, r.value), a later name overwriting
RECURSIVE ResCurrents(_, _, _)
ResCurrents(rs, voltages, acc) ==
    IF rs = <<>> THEN acc
    ELSE LET r == Head(rs)
             I_R == FDiv(FSub(VoltageGet(voltages, r.n1), VoltageGet(voltages, r.n2)), r.value)
         IN ResCurrents(Tail(rs), voltages, (r.name :> <<I_R, r.n1, r.n2, r.value>>) @@ acc)

\* VsrcCurrents reading the slots of Isrc from the last one backwards
RECURSIVE VsrcCurrents_Reversed(_, _, _, _)
VsrcCurrents_Reversed(vs, Isrc, k, acc) ==
    IF k > Len(vs) THEN acc
    ELSE VsrcCurrents_Reversed(vs, Isrc, k + 1, (vs[k].name :> Isrc[Len(vs) + 1 - k]) @@ acc)

\* vsrc_currents[vs.name] = Isrc[k], a later name overwriting
RECURSIVE VsrcCurrents(_, _, _, _)
VsrcCurrents(vs, Isrc, k, acc) ==
    IF k > Len(vs) THEN acc
    ELSE VsrcCurrents(vs, Isrc, k + 1, (vs[k].name :> Isrc[k]) @@ acc)

EmptyDict == [x \in {} |-> Zero]

\* the three result mappings read off the solution vector
Extract(rs, vs, idx, sol, N, voltages) ==
    [status |-> "ok",
     voltages |-> voltages,
     res_currents |-> ResCurrents(rs, voltages, EmptyDict),
     vsrc_currents |-> VsrcCurrents(vs, [k \in 1..Len(vs) |-> sol[N + k]], 1, EmptyDict)]

\* LinAlgError becomes RuntimeError; anything else is returned
SolveResult(rs, vs, asm, r) ==
    IF r.error # "none" THEN [status |-> "RuntimeError"]
    ELSE Extract(rs, vs, asm.idx_map, r.sol, Len(asm.nodes),
                 Voltages(asm.idx_map, [i \in 1..Len(asm.nodes) |-> r.sol[i]]))

\* the solver chosen by the size of the system
SolveAssembled(rs, vs, asm, use_sparse_if_possible, has_scipy) ==
    IF asm.error # "none" THEN [status |-> asm.error]
    ELSE IF has_scipy /\ use_sparse_if_possible /\ Len(asm.A) > SparseThreshold
    THEN SolveResult(rs, vs, asm, spsolve(asm.A, asm.z))
    ELSE SolveResult(rs, vs, asm, linalg_solve(asm.A, asm.z))

\* what solve returns or raises
solve(rs, vs, is, ns, use_sparse_if_possible, has_scipy) ==
    SolveAssembled(rs, vs, assemble_mna(rs, vs, is, ns), use_sparse_if_possible, has_scipy)

\* the step of the Circuit object: node_index_map may add '0', nothing else changes
Solve(use_sparse_if_possible) ==
    /\ outcome' = solve(resistors, vsources, isources, nodes, use_sparse_if_possible, HAS_SCIPY)
    /\ nodes' = NodesAfterIndexMap(nodes)
    /\ call' = "solve"
    /\ UNCHANGED <<resistors, vsources, isources, HAS_SCIPY, token, parsed, lines, loaded>>

(***************************************************************************)
(* Specification Spec: circuits over the node labels 0, 1, 2.              *)
(***************************************************************************)
Labels == {<<"0">>, <<"1">>, <<"2">>}
ResistorNames == {<<"R", "1">>, <<"R", "2">>}
VSourceNames == {<<"V", "1">>}
ISourceNames == {<<"I", "1">>}
ResistorValues == {Rat(1000), Rat(2000)}
VSourceValues == {Rat(12)}
ISourceValues == {<<1, 200>>}

NElems == Len(resistors) + Len(vsources) + Len(isources)

InitCircuit ==
    /\ resistors = <<>>
    /\ vsources = <<>>
    /\ isources = <<>>
    /\ nodes = {}
    /\ call = "new"
    /\ outcome = NoResult

Init ==
    /\ InitCircuit
    /\ HAS_SCIPY = TRUE
    /\ token = <<>>
    /\ parsed = NoResult
    /\ lines = <<>>
    /\ loaded = NoResult

AddResistor ==
    /\ NElems < MaxElems
    /\ Len(resistors) < MaxR
    /\ \E name \in ResistorNames, n1 \in Labels, n2 \in Labels, R \in ResistorValues :
          add_resistor(name, n1, n2, R)

AddVSource ==
    /\ NElems < MaxElems
    /\ Len(vsources) < MaxV
    /\ \E name \in VSourceNames, n_plus \in Labels, n_minus \in Labels, V \in VSourceValues :
          add_vsource(name, n_plus, n_minus, V)

AddISource ==
    /\ NElems < MaxElems
    /\ Len(isources) < MaxI
    /\ \E name \in ISourceNames, n_plus \in Labels, n_minus \in Labels, I \in ISourceValues :
          add_isource(name, n_plus, n_minus, I)

\* circ.solve(use_sparse_if_possible=False) and circ.solve(), whose default is True
SolveDense == Solve(FALSE)
SolveSparse == Solve(TRUE)

Next == AddResistor \/ AddVSource \/ AddISource \/ SolveDense \/ SolveSparse

Spec == Init /\ [][Next]_vars

(***************************************************************************)
(* Circuits the claims name.                                               *)
(***************************************************************************)
N1 == <<"1">>
N2 == <<"2">>

Joins(r, a, b) == (r.n1 = a /\ r.n2 = b) \/ (r.n1 = b /\ r.n2 = a)

\* a source from node 1 to ground, a resistor 1-2 (ra) and a resistor 2-ground (rb)
IsDivider(ra, rb) ==
    /\ isources = <<>>
    /\ Len(vsources) = 1
    /\ vsources[1].n_plus = N1 /\ vsources[1].n_minus = GROUND
    /\ Len(resistors) = 2
    /\ {ra, rb} = {1, 2}
    /\ Joins(resistors[ra], N1, N2)
    /\ Joins(resistors[rb], N2, GROUND)

\* the divider V1 1 0 12 / R1 1 2 1000 / R2 2 0 2000, as the netlist parser adds it
IsTestDivider ==
    /\ isources = <<>>
    /\ vsources = <<VSource(<<"V", "1">>, N1, GROUND, Rat(12))>>
    /\ resistors = <<Resistor(<<"R", "1">>, N1, N2, Rat(1000)),
                     Resistor(<<"R", "2">>, N2, GROUND, Rat(2000))>>

\* I1 1 0 0.005 / R1 1 0 1000
IsCurrentSourceLoad ==
    /\ vsources = <<>>
    /\ isources = <<ISource(<<"I", "1">>, N1, GROUND, <<1, 200>>)>>
    /\ resistors = <<Resistor(<<"R", "1">>, N1, GROUND, Rat(1000))>>

(***************************************************************************)
(* C1: in a series voltage divider (source V from node 1 to ground, R1     *)
(* between 1 and 2, R2 between 2 and ground) solve returns                 *)
(* voltages['2'] = V * R2 / (R1 + R2).                                     *)
(***************************************************************************)
C1_DividerVoltage ==
    \A ra \in {1, 2}, rb \in {1, 2} :
        (call = "solve" /\ IsDivider(ra, rb)) =>
            /\ outcome.status = "ok"
            /\ outcome.voltages[N2] =
                 RDiv(RMul(vsources[1].value, resistors[rb].value),
                      RAdd(resistors[ra].value, resistors[rb].value))

\* the divider of the test has been solved: 12 * 2000 / (1000 + 2000) = 8
C1_Witness ==
    /\ call = "solve"
    /\ IsTestDivider
    /\ outcome.status = "ok"
    /\ outcome.voltages[N2] = Rat(8)

(***************************************************************************)
(* C2 as stated: with I1 from node 1 (n_plus) to ground (n_minus) of 0.005 *)
(* and R1 = 1000 from node 1 to ground, solve returns voltages['1'] = +5.  *)
(***************************************************************************)
C2_Original ==
    (call = "solve" /\ IsCurrentSourceLoad) =>
        (outcome.status = "ok" /\ outcome.voltages[N1] = Rat(5))

(***************************************************************************)
(* C2 amended: for that circuit solve returns voltages['1'] = -5: the      *)
(* source draws its current out of n_plus.                                 *)
(***************************************************************************)
C2_CurrentSourceVoltage ==
    (call = "solve" /\ IsCurrentSourceLoad) =>
        (outcome.status = "ok" /\ outcome.voltages[N1] = Rat(-5))

C2_Witness ==
    /\ call = "solve"
    /\ IsCurrentSourceLoad
    /\ outcome.status = "ok"
    /\ outcome.voltages[N1] = Rat(-5)

(***************************************************************************)
(* C3: the current solve reports for a voltage source is positive when it  *)
(* flows out of the + terminal: in the divider V1 1 0 12 / R1 1 2 1000 /   *)
(* R2 2 0 2000 the V1 current equals the current through R1, +0.004.       *)
(***************************************************************************)
C3_SourceCurrentSign ==
    (call = "solve" /\ IsTestDivider) =>
        /\ outcome.status = "ok"
        /\ outcome.vsrc_currents[<<"V", "1">>] = <<1, 250>>
        /\ outcome.vsrc_currents[<<"V", "1">>] = outcome.res_currents[<<"R", "1">>][1]

(***************************************************************************)
(* C9: every successful solve returns voltages whose keys are exactly the  *)
(* circuit's node set, with the reference node '0' at exactly 0.           *)
(***************************************************************************)
C9_VoltageKeys ==
    (call = "solve" /\ outcome.status = "ok") =>
        /\ DOMAIN outcome.voltages = nodes
        /\ outcome.voltages[GROUND] = Zero

\* a solved circuit with two unknown nodes, one of them away from 0 volts
C9_Witness ==
    /\ call = "solve"
    /\ outcome.status = "ok"
    /\ Cardinality(nodes) = 3
    /\ \E n \in nodes : outcome.voltages[n] # Zero

(***************************************************************************)
(* C10: a solve that directly follows a solve, with no mutation in         *)
(* between, returns or raises what the first did.                          *)
(***************************************************************************)
C10_SolveIdempotent ==
    [][(call = "solve" /\ call' = "solve") => outcome' = outcome]_vars

\* a first solve has returned currents for two resistors and a source, and the
\* circuit is as that solve left it
C10_Witness ==
    /\ call = "solve"
    /\ outcome.status = "ok"
    /\ Len(resistors) = 2
    /\ Len(vsources) = 1
    /\ \E nm \in DOMAIN outcome.res_currents : outcome.res_currents[nm][1] # Zero

RECURSIVE Leaving(_, _)
\* the sum of the currents that leave node n through the first k resistors, a
\* current of res_currents being positive from n1 to n2
Leaving(n, k) ==
    IF k = 0 THEN Zero
    ELSE RAdd(Leaving(n, k - 1),
              RSub(IF resistors[k].n1 = n THEN outcome.res_currents[resistors[k].name][1] ELSE Zero,
                   IF resistors[k].n2 = n THEN outcome.res_currents[resistors[k].name][1] ELSE Zero))

\* the current the source supplies at node n, its reported current being positive
\* out of the + terminal
Supplied(n) ==
    RSub(IF vsources[1].n_plus = n THEN outcome.vsrc_currents[vsources[1].name] ELSE Zero,
         IF vsources[1].n_minus = n THEN outcome.vsrc_currents[vsources[1].name] ELSE Zero)

\* a solved network of resistors of distinct names and one voltage source, whose
\* terminals are two nodes
IsSolvedResistive ==
    /\ call = "solve"
    /\ outcome.status = "ok"
    /\ Len(vsources) = 1
    /\ vsources[1].n_plus # vsources[1].n_minus
    /\ isources = <<>>
    /\ \A j, k \in 1..Len(resistors) : resistors[j].name = resistors[k].name => j = k

(***************************************************************************)
(* C14: in a solved network of resistors with one voltage source, at every *)
(* node other than the reference node the sum of the resistor currents     *)
(* that leave the node equals the current the source supplies there.       *)
(***************************************************************************)
C14_KirchhoffAtNodes ==
    IsSolvedResistive =>
        \A n \in nodes \ {GROUND} : Leaving(n, Len(resistors)) = Supplied(n)

\* the block G of the assembled system: its first N rows and columns
GBlock ==
    [i \in 1..Len(Unknowns(nodes)) |-> [j \in 1..Len(Unknowns(nodes)) |->
        assemble_mna(resistors, vsources, isources, nodes).A[i][j]]]

RECURSIVE Conductance(_, _, _)
\* the sum of 1/R over those of the first k resistors that join the nodes a and b
Conductance(a, b, k) ==
    IF k = 0 THEN Zero
    ELSE RAdd(Conductance(a, b, k - 1),
              IF {resistors[k].n1, resistors[k].n2} = {a, b}
              THEN RDiv(One, resistors[k].value) ELSE Zero)

RECURSIVE RowSum(_, _)
\* the sum of the first k entries of a row
RowSum(row, k) == IF k = 0 THEN Zero ELSE RAdd(RowSum(row, k - 1), row[k])

(***************************************************************************)
(* C17: the block G assembled from the resistors is symmetric, G[i][j] for *)
(* i # j is minus the sum of the conductances of the resistors that join   *)
(* the nodes i and j, and the sum of row i is the sum of the conductances  *)
(* of the resistors that join node i and the reference node; so a resistor *)
(* from a node to itself adds nothing.                                     *)
(***************************************************************************)
C17_ConductanceBlock ==
    LET G == GBlock
        unknowns == Unknowns(nodes)
    IN \A i, j \in 1..Len(unknowns) :
        /\ G[i][j] = G[j][i]
        /\ i # j => G[i][j] = RNeg(Conductance(unknowns[i], unknowns[j], Len(resistors)))
        /\ RowSum(G[i], Len(unknowns)) = Conductance(unknowns[i], GROUND, Len(resistors))

\* two resistors join the nodes 1 and 2, in the two orientations, and G couples them
C17_Witness ==
    /\ Len(resistors) = 2
    /\ resistors[1].n1 = N1 /\ resistors[1].n2 = N2
    /\ resistors[2].n1 = N2 /\ resistors[2].n2 = N1
    /\ resistors[1].value # resistors[2].value
    /\ GBlock[1][2] = RNeg(RAdd(RDiv(One, resistors[1].value), RDiv(One, resistors[2].value)))
    /\ RowSum(GBlock[1], 2) = Zero

(***************************************************************************)
(* Specification SpecSrc: circuits with up to MaxSrcV voltage sources,     *)
(* whose names may coincide, among at most MaxSrcElems elements.           *)
(***************************************************************************)
SrcVSourceNames == {<<"V", "1">>, <<"V", "2">>}
SrcVSourceValues == {Rat(12), Rat(5)}
SrcPlusLabels == {<<"1">>, <<"2">>}

SrcAddResistor ==
    /\ NElems < MaxSrcElems
    /\ Len(resistors) < MaxSrcR
    /\ \E name \in ResistorNames, n1 \in Labels, n2 \in Labels :
          add_resistor(name, n1, n2, Rat(1000))

SrcAddVSource ==
    /\ NElems < MaxSrcElems
    /\ Len(vsources) < MaxSrcV
    /\ \E name \in SrcVSourceNames, n_plus \in SrcPlusLabels, n_minus \in Labels,
          V \in SrcVSourceValues :
          add_vsource(name, n_plus, n_minus, V)

SrcAddISource ==
    /\ NElems < MaxSrcElems
    /\ Len(isources) < MaxSrcI
    /\ \E n_plus \in SrcPlusLabels : add_isource(<<"I", "1">>, n_plus, <<"0">>, <<1, 200>>)

NextSrc == SrcAddResistor \/ SrcAddVSource \/ SrcAddISource \/ SolveDense \/ SolveSparse

SpecSrc == Init /\ [][NextSrc]_vars

\* the system assemble_mna builds for the circuit as it stands
Assembled == assemble_mna(resistors, vsources, isources, nodes)

\* the entry the loop over the voltage sources leaves in B for source src at the
\* row of node n: 1.0 at n_plus, then -1.0 at n_minus
Incidence(src, n) ==
    IF src.n_minus = n THEN RNeg(One) ELSE IF src.n_plus = n THEN One ELSE Zero

\* no two voltage sources share a name
DistinctVSourceNames ==
    \A j, k \in 1..Len(vsources) : vsources[j].name = vsources[k].name => j = k

\* the unknowns are the non-reference nodes in sorted-label order, indexed from the first
SortedUnknowns(asm) ==
    /\ {asm.nodes[i] : i \in 1..Len(asm.nodes)} = nodes \ {GROUND}
    /\ \A i, j \in 1..Len(asm.nodes) : i < j => StrLess(asm.nodes[i], asm.nodes[j])
    /\ \A i \in 1..Len(asm.nodes) : asm.idx_map[asm.nodes[i]] = i

\* voltage source k holds row and column N + k of the system asm
OccupiesSlot(asm, k) ==
    LET N == Len(asm.nodes)
        M == Len(vsources)
    IN /\ asm.z[N + k] = vsources[k].value
       /\ \A i \in 1..N :
             /\ asm.A[N + k][i] = Incidence(vsources[k], asm.nodes[i])
             /\ asm.A[i][N + k] = Incidence(vsources[k], asm.nodes[i])
       /\ \A m \in 1..M : asm.A[N + k][N + m] = Zero /\ asm.A[N + m][N + k] = Zero

(***************************************************************************)
(* C15: after any sequence of additions the unknowns are the non-reference *)
(* nodes in sorted-label order, N of them; the k-th voltage source in      *)
(* insertion order holds row and column N + k of the assembled system      *)
(* (k counted from 1 here, from 0 in the program); when the names of the   *)
(* sources are distinct, a solve maps the name of the k-th source to slot  *)
(* N + k of the solution vector; with no voltage source the system is the  *)
(* block G with the vector of injected currents, and the mapping of the    *)
(* source currents is empty.                                               *)
(***************************************************************************)
C15_SourceSlots ==
    LET asm == Assembled
        N == Len(Unknowns(nodes))
        M == Len(vsources)
    IN asm.error = "none" =>
        /\ SortedUnknowns(asm)
        /\ Len(asm.nodes) = N
        /\ Len(asm.A) = N + M /\ Len(asm.z) = N + M
        /\ \A k \in 1..M : OccupiesSlot(asm, k)
        /\ (call = "solve" /\ outcome.status = "ok" /\ DistinctVSourceNames) =>
              /\ DOMAIN outcome.vsrc_currents = {vsources[k].name : k \in 1..M}
              /\ \A k \in 1..M :
                    outcome.vsrc_currents[vsources[k].name]
                        = linalg_solve(asm.A, asm.z).sol[N + k]
        /\ M = 0 =>
              /\ asm.A = StampResistors(ZeroMatrix(N, N), resistors, asm.idx_map)
              /\ asm.z = StampISources([i \in 1..N |-> Zero], isources, asm.idx_map)
              /\ (call = "solve" /\ outcome.status = "ok") => DOMAIN outcome.vsrc_currents = {}

\* a solved circuit with two voltage sources of distinct names added around a
\* resistor, the two reported currents being different
C15_Witness ==
    /\ call = "solve"
    /\ outcome.status = "ok"
    /\ Len(vsources) = 2
    /\ Len(resistors) = 1
    /\ DistinctVSourceNames
    /\ outcome.vsrc_currents[vsources[1].name] # outcome.vsrc_currents[vsources[2].name]

\* the place in elems of the element of that name that was inserted last
LastNamed(elems, name) ==
    CHOOSE k \in 1..Len(elems) :
        elems[k].name = name /\ \A m \in (k + 1)..Len(elems) : elems[m].name # name

\* the entry the loop over the resistors computes for resistor r from the voltages
ResistorEntry(r, voltages) ==
    <<FDiv(FSub(VoltageGet(voltages, r.n1), VoltageGet(voltages, r.n2)), r.value),
      r.n1, r.n2, r.value>>

\* an addition appends one element to one list and drops nothing, whatever its name
AdditionKeeps ==
    call' = "add" =>
        /\ Len(resistors') + Len(vsources') + Len(isources') = NElems + 1
        /\ SubSeq(resistors', 1, Len(resistors)) = resistors
        /\ SubSeq(vsources', 1, Len(vsources)) = vsources
        /\ SubSeq(isources', 1, Len(isources)) = isources

\* every listed element is in the system, names coinciding or not: each
\* resistor in the conductance sums, each voltage source in a row of its own
AllStamped ==
    LET asm == Assembled
        N == Len(Unknowns(nodes))
    IN asm.error = "none" =>
        /\ Len(asm.A) = N + Len(vsources)
        /\ \A k \in 1..Len(vsources) : OccupiesSlot(asm, k)
        /\ \A i \in 1..N :
              /\ RowSum(asm.A[i], N) = Conductance(asm.nodes[i], GROUND, Len(resistors))
              /\ \A j \in 1..N : i # j =>
                    asm.A[i][j] = RNeg(Conductance(asm.nodes[i], asm.nodes[j], Len(resistors)))

\* each result mapping has one entry for each name, that of the element of the name
\* that was inserted last
LastEntryKept ==
    (call = "solve" /\ outcome.status = "ok") =>
        LET asm == Assembled
            N == Len(Unknowns(nodes))
        IN /\ DOMAIN outcome.res_currents = {resistors[k].name : k \in 1..Len(resistors)}
           /\ \A nm \in DOMAIN outcome.res_currents :
                 outcome.res_currents[nm]
                     = ResistorEntry(resistors[LastNamed(resistors, nm)], outcome.voltages)
           /\ DOMAIN outcome.vsrc_currents = {vsources[k].name : k \in 1..Len(vsources)}
           /\ \A nm \in DOMAIN outcome.vsrc_currents :
                 outcome.vsrc_currents[nm]
                     = linalg_solve(asm.A, asm.z).sol[N + LastNamed(vsources, nm)]

(***************************************************************************)
(* C16: an addition is never refused on account of the name: it appends    *)
(* the element and keeps the elements already listed; every listed element *)
(* is stamped into the assembled system, two of the same name included;    *)
(* and the result mappings of a solve hold one entry for each name, the    *)
(* entry computed for the element of that name that was inserted last.     *)
(***************************************************************************)
C16_DuplicateNames == [](AllStamped /\ LastEntryKept) /\ [][AdditionKeeps]_vars

\* a solved circuit with two resistors of one name that carry different currents
C16_Witness ==
    /\ call = "solve"
    /\ outcome.status = "ok"
    /\ Len(resistors) = 2
    /\ resistors[1].name = resistors[2].name
    /\ ResistorEntry(resistors[1], outcome.voltages)[1]
           # ResistorEntry(resistors[2], outcome.voltages)[1]
    /\ DOMAIN outcome.res_currents = {resistors[2].name}

(***************************************************************************)
(* Specification SpecGnd: circuits whose terminals may be written GND in   *)
(* several letter cases, and whose resistors may be 0 ohm.                 *)
(***************************************************************************)
GndLabels == {<<"0">>, <<"1">>, <<"G", "N", "D">>, <<"g", "n", "d">>, <<"G", "n", "d">>}
GndResistorValues == {Rat(1000), Zero}

GndAddResistor ==
    /\ NElems < MaxGndElems
    /\ \E n1 \in GndLabels, n2 \in GndLabels, R \in GndResistorValues :
          add_resistor(<<"R", "1">>, n1, n2, R)

GndAddVSource ==
    /\ NElems < MaxGndElems
    /\ \E n_plus \in GndLabels, n_minus \in GndLabels, V \in VSourceValues :
          add_vsource(<<"V", "1">>, n_plus, n_minus, V)

GndAddISource ==
    /\ NElems < MaxGndElems
    /\ \E n_plus \in GndLabels, n_minus \in GndLabels, I \in ISourceValues :
          add_isource(<<"I", "1">>, n_plus, n_minus, I)

NextGnd == GndAddResistor \/ GndAddVSource \/ GndAddISource \/ SolveDense \/ SolveSparse

SpecGnd == Init /\ [][NextGnd]_vars

\* a terminal that names the reference node: 0, or GND in any letter case
NamesGround(n) ==
    \/ n = <<"0">>
    \/ /\ Len(n) = 3
       /\ n[1] \in {"G", "g"} /\ n[2] \in {"N", "n"} /\ n[3] \in {"D", "d"}

\* a terminal with GND, in any letter case, rewritten "0"
WrittenZero(n) == IF NamesGround(n) THEN <<"0">> ELSE n

ResistorsWrittenZero ==
    [k \in 1..Len(resistors) |->
        [resistors[k] EXCEPT !.n1 = WrittenZero(@), !.n2 = WrittenZero(@)]]
VSourcesWrittenZero ==
    [k \in 1..Len(vsources) |->
        [vsources[k] EXCEPT !.n_plus = WrittenZero(@), !.n_minus = WrittenZero(@)]]
ISourcesWrittenZero ==
    [k \in 1..Len(isources) |->
        [isources[k] EXCEPT !.n_plus = WrittenZero(@), !.n_minus = WrittenZero(@)]]

\* the terminals of every element of the circuit
Terminals(rs, vs, is) ==
    {rs[k].n1 : k \in 1..Len(rs)} \cup {rs[k].n2 : k \in 1..Len(rs)}
    \cup {vs[k].n_plus : k \in 1..Len(vs)} \cup {vs[k].n_minus : k \in 1..Len(vs)}
    \cup {is[k].n_plus : k \in 1..Len(is)} \cup {is[k].n_minus : k \in 1..Len(is)}

(***************************************************************************)
(* C5: an element with a terminal written GND (any letter case) is         *)
(* connected to the reference node: solve succeeds exactly when, and       *)
(* returns what, solve returns on the circuit with the terminal written 0. *)
(***************************************************************************)
C5_GndIsReference ==
    call = "solve" =>
        outcome = solve(ResistorsWrittenZero, VSourcesWrittenZero, ISourcesWrittenZero,
                        nodes, TRUE, HAS_SCIPY)

(***************************************************************************)
(* C7 as stated: when solve fails, the three element lists and the node    *)
(* set are as they were before the call.                                   *)
(***************************************************************************)
C7_Original ==
    [][(call' = "solve" /\ outcome'.status # "ok") =>
          /\ resistors' = resistors
          /\ vsources' = vsources
          /\ isources' = isources
          /\ nodes' = nodes]_vars

(***************************************************************************)
(* C7 amended: when solve fails, the three element lists are as they were  *)
(* before the call, and so is the node set except that the reference node  *)
(* '0' has been added to it when it was missing.                           *)
(***************************************************************************)
C7_FailedSolveFrame ==
    [][(call' = "solve" /\ outcome'.status # "ok") =>
          /\ resistors' = resistors
          /\ vsources' = vsources
          /\ isources' = isources
          /\ nodes' = nodes \cup {<<"0">>}]_vars

\* a solve has failed on a circuit none of whose elements names the reference
\* node, which the node set now holds
C7_Witness ==
    /\ call = "solve"
    /\ outcome.status = "RuntimeError"
    /\ NElems > 0
    /\ \A n \in Terminals(resistors, vsources, isources) : ~NamesGround(n)
    /\ <<"0">> \in nodes

(***************************************************************************)
(* C8 as stated: after any non-empty sequence of add calls the node set    *)
(* contains '0', whatever the terminals, before any solve.                 *)
(***************************************************************************)
C8_Original == call = "add" => <<"0">> \in nodes

\* the terminals of the element an add step appends
AddedTerminals ==
    IF resistors' # resistors
    THEN {resistors'[Len(resistors')].n1, resistors'[Len(resistors')].n2}
    ELSE IF vsources' # vsources
    THEN {vsources'[Len(vsources')].n_plus, vsources'[Len(vsources')].n_minus}
    ELSE {isources'[Len(isources')].n_plus, isources'[Len(isources')].n_minus}

(***************************************************************************)
(* C8 amended: after an add call the node set contains '0' exactly when it *)
(* did before the call or a terminal of the added element is 0 or GND (any *)
(* letter case); it is empty at construction.                              *)
(***************************************************************************)
C8_GroundOnlyWhenNamed ==
    [][call' = "add" =>
          (<<"0">> \in nodes' <=>
              (<<"0">> \in nodes \/ \E n \in AddedTerminals : NamesGround(n)))]_vars

\* two elements added, no solve requested, and no '0' in the node set
C8_Witness ==
    /\ call = "add"
    /\ NElems = 2
    /\ nodes # {}
    /\ <<"0">> \notin nodes

(***************************************************************************)
(* parse_value.  A parsed number is a decimal mant * 10^exp with no        *)
(* trailing zero in mant, or one of float's inf and nan.                   *)
(***************************************************************************)
Num(m, e) == [kind |-> "num", mant |-> m, exp |-> e]
Inf(sign) == [kind |-> "inf", mant |-> sign, exp |-> 0]
NotANumber == [kind |-> "nan", mant |-> 0, exp |-> 0]

RECURSIVE Dec(_, _)
\* mant * 10^exp without trailing zeros
Dec(m, e) ==
    IF m = 0 THEN Num(0, 0)
    ELSE IF m % 10 = 0 THEN Dec(m \div 10, e + 1)
    ELSE Num(m, e)

Sign(x) == IF x < 0 THEN -1 ELSE 1

\* a * b for floats
DecMul(a, b) ==
    IF a.kind = "nan" \/ b.kind = "nan" THEN NotANumber
    ELSE IF a.kind = "inf" \/ b.kind = "inf"
    THEN IF a.mant = 0 \/ b.mant = 0 THEN NotANumber ELSE Inf(Sign(a.mant) * Sign(b.mant))
    ELSE Dec(a.mant * b.mant, a.exp + b.exp)

\* a / 10^k for floats
DecShift(a, k) == IF a.kind = "num" THEN Dec(a.mant, a.exp - k) ELSE a

\* the micro sign, one character of the source, is written "mu" here
Micro == "mu"

\* SI_PREFIXES, as the exponent of ten of each prefix
SI_PREFIXES ==
    ("G" :> 9) @@ ("M" :> 6) @@ ("k" :> 3) @@ ("K" :> 3) @@ ("m" :> -3)
    @@ ("u" :> -6) @@ (Micro :> -6) @@ ("n" :> -9) @@ ("p" :> -12)

IsDigit(c) == IsIn(c, DigitChars)
IsSpace(c) == c = " "
\* [a-zA-Zµ%]
IsSuffixChar(c) == IsIn(c, UpperChars) \/ IsIn(c, LowerChars) \/ c = Micro \/ c = "%"

Slice(s, from, to) == [i \in 1..(to - from + 1) |-> s[from + i - 1]]

RECURSIVE Strip(_)
\* str.strip()
Strip(s) ==
    IF s = <<>> THEN s
    ELSE IF IsSpace(Head(s)) THEN Strip(Tail(s))
    ELSE IF IsSpace(s[Len(s)]) THEN Strip(Slice(s, 1, Len(s) - 1))
    ELSE s

RECURSIVE SpanDigits(_, _)
\* the index after the run of digits of s that starts at i
SpanDigits(s, i) == IF i <= Len(s) /\ IsDigit(s[i]) THEN SpanDigits(s, i + 1) ELSE i

RECURSIVE DigitsValue(_, _, _, _)
\* the number the digits s[from..to-1] write, after acc
DigitsValue(s, from, to, acc) ==
    IF from >= to THEN acc
    ELSE DigitsValue(s, from + 1, to, 10 * acc + (IndexIn(s[from], DigitChars) - 1))

IsSignAt(s, i) == i <= Len(s) /\ s[i] \in {"+", "-"}
SignAt(s, i) == IF i <= Len(s) /\ s[i] = "-" THEN -1 ELSE 1
AfterSign(s, i) == IF IsSignAt(s, i) THEN i + 1 ELSE i
HasDotAt(s, i) == i <= Len(s) /\ s[i] = "."
AfterDot(s, i) == IF HasDotAt(s, i) THEN i + 1 ELSE i
HasExpAt(s, i) == i <= Len(s) /\ s[i] \in {"e", "E"}

\* the places of a decimal literal in s: sign, integer digits [i1, i2), fraction
\* digits [i3, i4), and the exponent's digits [i5, i6) when it has an exponent
Places(s) ==
    [i1 |-> AfterSign(s, 1),
     i2 |-> SpanDigits(s, AfterSign(s, 1)),
     i3 |-> AfterDot(s, SpanDigits(s, AfterSign(s, 1))),
     i4 |-> SpanDigits(s, AfterDot(s, SpanDigits(s, AfterSign(s, 1))))]

ExpPlaces(s, i4) ==
    [has |-> HasExpAt(s, i4) /\ SpanDigits(s, AfterSign(s, i4 + 1)) > AfterSign(s, i4 + 1),
     i5 |-> AfterSign(s, i4 + 1),
     i6 |-> SpanDigits(s, AfterSign(s, i4 + 1))]

LiteralEnd(p, x) == IF x.has THEN x.i6 ELSE p.i4

\* the value of the literal with places p and exponent places x
LiteralValue(s, p, x) ==
    Dec(SignAt(s, 1) * DigitsValue(s, p.i3, p.i4, DigitsValue(s, p.i1, p.i2, 0)),
        (IF x.has THEN SignAt(s, p.i4 + 1) * DigitsValue(s, x.i5, x.i6, 0) ELSE 0)
          - (p.i4 - p.i3))

StrLower(s) ==
    [i \in 1..Len(s) |->
        IF IsIn(s[i], UpperChars) THEN LowerChars[IndexIn(s[i], UpperChars)] ELSE s[i]]

Unsigned(s) == IF IsSignAt(s, 1) THEN Tail(s) ELSE s

\* float(s) on a stripped string: a decimal literal (digits, a point, an exponent;
\* "1." and ".5" are literals), or inf, infinity, nan in any letter case
FloatOver(s, p, x) ==
    IF StrLower(Unsigned(s)) \in {<<"i", "n", "f">>, <<"i", "n", "f", "i", "n", "i", "t", "y">>}
    THEN [ok |-> TRUE, value |-> Inf(SignAt(s, 1))]
    ELSE IF StrLower(Unsigned(s)) = <<"n", "a", "n">>
    THEN [ok |-> TRUE, value |-> NotANumber]
    ELSE IF (p.i2 - p.i1) + (p.i4 - p.i3) >= 1 /\ LiteralEnd(p, x) = Len(s) + 1
    THEN [ok |-> TRUE, value |-> LiteralValue(s, p, x)]
    ELSE [ok |-> FALSE]

FloatOf(s) == FloatOver(Strip(s), Places(Strip(s)), ExpPlaces(Strip(s), Places(Strip(s)).i4))

\* [+-]?[0-9]*\.?[0-9]+(?:[eE][+-]?[0-9]+)? matches all of s
NumberMatchOver(s, p, x) ==
    /\ s # <<>>
    /\ IF HasDotAt(s, p.i2) THEN p.i4 > p.i3 ELSE p.i2 > p.i1
    /\ LiteralEnd(p, x) = Len(s) + 1

NumberMatch(s) == NumberMatchOver(s, Places(s), ExpPlaces(s, Places(s).i4))

RECURSIVE SuffixStart(_, _)
\* where the run of suffix characters that ends s starts, from i downwards
SuffixStart(s, i) == IF i >= 1 /\ IsSuffixChar(s[i]) THEN SuffixStart(s, i - 1) ELSE i + 1

\* re.fullmatch(number)(suffix): the number must end in a digit and the suffix holds
\* no digit, so the suffix is the whole run of suffix characters that ends the token
Group1(s) == Slice(s, 1, SuffixStart(s, Len(s)) - 1)
Group2(s) == Slice(s, SuffixStart(s, Len(s)), Len(s))
FullMatch(s) == Group2(s) # <<>> /\ NumberMatch(Group1(s))

RECURSIVE FirstPrefix(_)
\* for ch in suf: if ch in SI_PREFIXES: the first such ch, or "" for none
FirstPrefix(suf) ==
    IF suf = <<>> THEN ""
    ELSE IF Head(suf) \in DOMAIN SI_PREFIXES THEN Head(suf)
    ELSE FirstPrefix(Tail(suf))

Ok(v) == [status |-> "ok", value |-> v]

\* a ValueError whose message holds the fixed text alone
ValueError_TextOnly(text, arg) == [status |-> "ValueError", text |-> text, arg |-> <<>>]

\* raise ValueError(f"{text}: '{arg}'")
ValueError(text, arg) == [status |-> "ValueError", text |-> text, arg |-> arg]

\* if suf.endswith('%'): return base * (float(suf[:-1]) / 100.0)
PercentBranch(base, rest) ==
    IF FloatOf(rest).ok THEN Ok(DecMul(base, DecShift(FloatOf(rest).value, 2)))
    ELSE ValueError("could not convert string to float", rest)

\* parse_value after the regular expression has matched
ParseSuffix(base, suf) ==
    IF suf[Len(suf)] = "%" THEN PercentBranch(base, Slice(suf, 1, Len(suf) - 1))
    ELSE IF Len(suf) = 1 /\ suf[1] \in DOMAIN SI_PREFIXES
    THEN Ok(DecShift(base, -SI_PREFIXES[suf[1]]))
    ELSE IF FirstPrefix(suf) # ""
    THEN Ok(DecShift(base, -SI_PREFIXES[FirstPrefix(suf)]))
    ELSE ValueError("Sufijo desconocido al parsear valor", suf)

ParseStripped(t) ==
    IF FloatOf(t).ok THEN Ok(FloatOf(t).value)
    ELSE IF ~FullMatch(t) THEN ValueError("No se pudo parsear el valor", t)
    ELSE ParseSuffix(FloatOf(Group1(t)).value, Group2(t))

\* what parse_value returns or raises
parse_value(tok) == ParseStripped(Strip(tok))

(***************************************************************************)
(* Specification SpecParse: parse_value called once on a token of at most  *)
(* MaxTokenLen characters of TokenChars.                                   *)
(***************************************************************************)
TokenChars == {"0", "1", ".", "%", "k", "m", "A", "e", "-", " "}
Tokens == UNION {[1..n -> TokenChars] : n \in 0..MaxTokenLen}

\* the token in hand, not parsed yet
InitParse ==
    /\ InitCircuit
    /\ HAS_SCIPY = TRUE
    /\ token \in Tokens
    /\ parsed = NoResult
    /\ lines = <<>>
    /\ loaded = NoResult

ParseValue ==
    /\ parsed.status = "none"
    /\ parsed' = parse_value(token)
    /\ UNCHANGED <<resistors, vsources, isources, nodes, call, outcome, HAS_SCIPY, token,
                   lines, loaded>>

NextParse == ParseValue

SpecParse == InitParse /\ [][NextParse]_vars

\* the token is a number followed by a suffix that ends in '%'
IsPercentToken(t) == FullMatch(t) /\ t[Len(t)] = "%"

(***************************************************************************)
(* C4: parse_value on a numeric part followed by a suffix that ends in '%' *)
(* returns the numeric part divided by 100, whatever else the suffix       *)
(* holds; parse_value("10%") is 0.10 and does not raise.                   *)
(***************************************************************************)
C4_PercentDivides ==
    (parsed.status # "none" /\ IsPercentToken(Strip(token)) /\ ~FloatOf(token).ok) =>
        /\ parsed.status = "ok"
        /\ parsed.value = DecShift(FloatOf(Group1(Strip(token))).value, 2)

(***************************************************************************)
(* C13 as stated: every failure of parse_value is a ValueError whose       *)
(* message carries the token that was passed in (as passed, or stripped of *)
(* the surrounding blanks), however the token is rejected.                 *)
(***************************************************************************)
C13_Original ==
    parsed.status \notin {"none", "ok"} =>
        /\ parsed.status = "ValueError"
        /\ parsed.arg \in {token, Strip(token)}

(***************************************************************************)
(* C13 amended: every failure of parse_value is a ValueError; its message  *)
(* carries the stripped token when the number-and-suffix pattern does not  *)
(* match, the suffix alone when the suffix holds no known prefix           *)
(* character, and the suffix without its final '%' (float's own error)     *)
(* when the suffix ends in '%'.                                            *)
(***************************************************************************)
C13_ErrorCarries ==
    parsed.status \notin {"none", "ok"} =>
        /\ parsed.status = "ValueError"
        /\ parsed.arg =
             IF ~FullMatch(Strip(token)) THEN Strip(token)
             ELSE IF IsPercentToken(Strip(token))
             THEN Slice(Group2(Strip(token)), 1, Len(Group2(Strip(token))) - 1)
             ELSE Group2(Strip(token))

\* parse_value has rejected a number followed by a suffix of unknown letters, and
\* the message holds the suffix, which is not the token
C13_Witness ==
    /\ parsed.status = "ValueError"
    /\ FullMatch(Strip(token))
    /\ ~IsPercentToken(Strip(token))
    /\ parsed.arg = Group2(Strip(token))
    /\ parsed.arg # Strip(token)

(***************************************************************************)
(* parse_netlist_lines.  A line is a string; the circuit it builds is a    *)
(* record of the three lists and the node set, and the values of its       *)
(* elements are the floats parse_value returned.                           *)
(***************************************************************************)
\* Circuit()
EmptyCircuit == [resistors |-> <<>>, vsources |-> <<>>, isources |-> <<>>, nodes |-> {}]

\* circ.add_resistor(name, n1, n2, val) on the circuit being built
CircAddResistor(circ, name, n1, n2, val) ==
    [circ EXCEPT !.resistors = Append(@, Resistor(name, n1, n2, val)),
                 !.nodes = _add_node(_add_node(@, n1), n2)]

\* circ.add_vsource(name, n_plus, n_minus, val) on the circuit being built
CircAddVSource(circ, name, n_plus, n_minus, val) ==
    [circ EXCEPT !.vsources = Append(@, VSource(name, n_plus, n_minus, val)),
                 !.nodes = _add_node(_add_node(@, n_plus), n_minus)]

\* circ.add_isource(name, n_plus, n_minus, val) on the circuit being built
CircAddISource(circ, name, n_plus, n_minus, val) ==
    [circ EXCEPT !.isources = Append(@, ISource(name, n_plus, n_minus, val)),
                 !.nodes = _add_node(_add_node(@, n_plus), n_minus)]

RECURSIVE SplitFrom(_, _, _, _)
\* the tokens of s from index i on, after the tokens acc and the open token cur
SplitFrom(s, i, cur, acc) ==
    IF i > Len(s) THEN (IF cur = <<>> THEN acc ELSE Append(acc, cur))
    ELSE IF IsSpace(s[i])
    THEN SplitFrom(s, i + 1, <<>>, IF cur = <<>> THEN acc ELSE Append(acc, cur))
    ELSE SplitFrom(s, i + 1, Append(cur, s[i]), acc)

\* re.split(r"\s+", line) for a stripped, non-empty line
Split(line) == SplitFrom(line, 1, <<>>, <<>>)

\* not line or line.startswith('*') or line.startswith('#') or line.startswith(';')
IsSkipped(line) == line = <<>> \/ line[1] \in {"*", "#", ";"}

\* IsElementLine that takes any first letter
IsElementLine_AnyLetter(parts, letter) == Len(parts) >= 4

\* tok[0].upper() == letter and len(parts) >= 4
IsElementLine(parts, letter) == CharUpper(parts[1][1]) = letter /\ Len(parts) >= 4

\* the element line added to circ, its value being val
AddElement(circ, parts, val) ==
    IF CharUpper(parts[1][1]) = "R" THEN CircAddResistor(circ, parts[1], parts[2], parts[3], val)
    ELSE IF CharUpper(parts[1][1]) = "V"
    THEN CircAddVSource(circ, parts[1], parts[2], parts[3], val)
    ELSE CircAddISource(circ, parts[1], parts[2], parts[3], val)

\* NetlistError that names the first line whatever the line
NetlistError_FirstLine(lineno, line, e) ==
    [status |-> "RuntimeError", lineno |-> 1, line |-> line, cause |-> e]

\* raise RuntimeError(f"Error parseando línea {lineno} ('{line}'): {e}")
NetlistError(lineno, line, e) ==
    [status |-> "RuntimeError", lineno |-> lineno, line |-> line, cause |-> e]

\* one turn of the loop on a line that is not skipped: the circuit and the warnings
\* so far, or the error raised
ParseLine(acc, lineno, line, parts) ==
    IF IsElementLine(parts, "R") \/ IsElementLine(parts, "V") \/ IsElementLine(parts, "I")
    THEN IF parse_value(parts[4]).status = "ok"
         THEN [acc EXCEPT !.circ = AddElement(@, parts, parse_value(parts[4]).value)]
         ELSE NetlistError(lineno, line, parse_value(parts[4]))
    ELSE [acc EXCEPT !.warned = Append(@, lineno)]

RECURSIVE LoadFrom(_, _, _)
\* for lineno, raw in enumerate(lines, start=1), from lineno on
LoadFrom(ls, lineno, acc) ==
    IF acc.status # "ok" \/ lineno > Len(ls) THEN acc
    ELSE IF IsSkipped(Strip(ls[lineno])) THEN LoadFrom(ls, lineno + 1, acc)
    ELSE LoadFrom(ls, lineno + 1,
                  ParseLine(acc, lineno, Strip(ls[lineno]), Split(Strip(ls[lineno]))))

\* what parse_netlist_lines returns (circ) or raises, and the lines it warned about
parse_netlist_lines(ls) ==
    LoadFrom(ls, 1, [status |-> "ok", circ |-> EmptyCircuit, warned |-> <<>>])

(***************************************************************************)
(* Specification SpecNet: parse_netlist_lines called once on a netlist of  *)
(* at most MaxLines lines of NetLines; the circuit it returns becomes the  *)
(* circuit of the state.                                                   *)
(***************************************************************************)
NetLines ==
    { <<"R", "1", " ", "1", " ", "0", " ", "1", "k">>,   \* a resistor
      <<"V", "1", " ", "1", " ", "0", " ", "1", "2">>,   \* a voltage source
      <<"I", "1", " ", "2", " ", "0", " ", "5", "m">>,   \* a current source
      <<"r", "2", " ", "1", " ", "2", " ", "1", "e", "3">>,   \* a lower-case first letter
      <<" ", "R", "5", " ", " ", "1", " ", "G", "N", "D", " ", "1", "k", " ", "x", " ">>,   \* blanks around and between, a fifth token
      <<"R", "3", " ", "2", " ", "0", " ", "1", "A">>,   \* a suffix with no known prefix
      <<"V", "2", " ", "2", " ", "0", " ", "1", "0", "%">>,   \* a percent suffix
      <<" ", "I", "2", " ", "1", " ", "0", " ", "k", " ">>,   \* no number, blanks around
      <<>>,   \* an empty line
      <<" ", " ">>,   \* a blank line
      <<"#", " ", "R", "9", " ", "1", " ", "0", " ", "k">>,   \* comments
      <<"*", " ", "c">>,
      <<";", " ", "c">>,
      <<"X", "1", " ", "1", " ", "0", " ", "5">>,   \* another first letter
      <<"R", "4", " ", "1", " ", "0">>   \* three tokens
    }

Netlists == UNION {[1..n -> NetLines] : n \in 0..MaxLines}

InitNet ==
    /\ InitCircuit
    /\ HAS_SCIPY = TRUE
    /\ token = <<>>
    /\ parsed = NoResult
    /\ lines \in Netlists
    /\ loaded = NoResult

\* circ = parse_netlist_lines(lines)
ParseNetlistLines ==
    /\ loaded.status = "none"
    /\ loaded' = parse_netlist_lines(lines)
    /\ IF loaded'.status = "ok"
       THEN /\ resistors' = loaded'.circ.resistors
            /\ vsources' = loaded'.circ.vsources
            /\ isources' = loaded'.circ.isources
            /\ nodes' = loaded'.circ.nodes
       ELSE UNCHANGED <<resistors, vsources, isources, nodes>>
    /\ UNCHANGED <<call, outcome, HAS_SCIPY, token, parsed, lines>>

NextNet == ParseNetlistLines

SpecNet == InitNet /\ [][NextNet]_vars

\* the line is an R, V or I line of at least four tokens
IsElementRaw(raw) ==
    /\ ~IsSkipped(Strip(raw))
    /\ CharUpper(Split(Strip(raw))[1][1]) \in {"R", "V", "I"}
    /\ Len(Split(Strip(raw))) >= 4

\* the value token of the element line does not parse
ValueFails(raw) == IsElementRaw(raw) /\ parse_value(Split(Strip(raw))[4]).status # "ok"

\* the first line of the netlist whose value token does not parse
FirstFailing == CHOOSE k \in 1..Len(lines) :
                    ValueFails(lines[k]) /\ \A j \in 1..(k - 1) : ~ValueFails(lines[j])

(***************************************************************************)
(* C11: when the value token of an R/V/I line of at least four tokens does *)
(* not parse, parse_netlist_lines raises an error that names the number    *)
(* (from 1) and the text (without the surrounding blanks) of the first     *)
(* such line, and no circuit is returned, whatever came before that line.  *)
(***************************************************************************)
C11_FailureNamesLine ==
    (loaded.status # "none" /\ \E k \in 1..Len(lines) : ValueFails(lines[k])) =>
        /\ loaded.status = "RuntimeError"
        /\ loaded.lineno = FirstFailing
        /\ loaded.line = Strip(lines[FirstFailing])
        /\ loaded.cause.status = "ValueError"
        /\ DOMAIN loaded = {"status", "lineno", "line", "cause"}
        /\ resistors = <<>> /\ vsources = <<>> /\ isources = <<>> /\ nodes = {}

\* two element lines were read, then the third line failed
C11_Witness ==
    /\ loaded.status = "RuntimeError"
    /\ loaded.lineno = 3
    /\ IsElementRaw(lines[1]) /\ IsElementRaw(lines[2])
    /\ ~ValueFails(lines[1]) /\ ~ValueFails(lines[2])
    /\ loaded.line = Strip(lines[3])

\* the lines of the netlist that are not ignored, in file order
KeptLines == SelectSeq(lines, IsElementRaw)

\* the first three tokens of the kept lines that start with the letter, in file order
KeptElements(letter) ==
    LET Starts(raw) == CharUpper(Split(Strip(raw))[1][1]) = letter
        ls == SelectSeq(KeptLines, Starts)
    IN [k \in 1..Len(ls) |-> SubSeq(Split(Strip(ls[k])), 1, 3)]

\* name and terminals of the elements of a list
Written(elems, a, b) == [k \in 1..Len(elems) |-> <<elems[k].name, elems[k][a], elems[k][b]>>]

(***************************************************************************)
(* C12: a line that is blank, starts with '#', '*' or ';', starts with a   *)
(* character other than R/V/I, or has fewer than four tokens never makes   *)
(* loading fail and adds no element: when the values of the remaining      *)
(* lines parse, parse_netlist_lines returns the circuit that holds exactly *)
(* the elements of those lines, in file order, and in all cases it does    *)
(* what it does on the remaining lines alone.                              *)
(***************************************************************************)
C12_IgnoredLines ==
    loaded.status # "none" =>
        /\ loaded.status = parse_netlist_lines(KeptLines).status
        /\ (\A k \in 1..Len(lines) : ~ValueFails(lines[k])) =>
              /\ loaded.status = "ok"
              /\ loaded.circ = parse_netlist_lines(KeptLines).circ
              /\ Written(resistors, "n1", "n2") = KeptElements("R")
              /\ Written(vsources, "n_plus", "n_minus") = KeptElements("V")
              /\ Written(isources, "n_plus", "n_minus") = KeptElements("I")

\* a netlist of a comment, an element and a line of three tokens was loaded
C12_Witness ==
    /\ loaded.status = "ok"
    /\ Len(lines) = 3
    /\ IsSkipped(Strip(lines[1]))
    /\ IsElementRaw(lines[2])
    /\ ~IsSkipped(Strip(lines[3])) /\ Len(Split(Strip(lines[3]))) < 4
    /\ Len(resistors) + Len(vsources) + Len(isources) = 1
    /\ loaded.warned = <<3>>

(***************************************************************************)
(* Specification SpecLarge: circuits of up to MaxLarge nodes, so that the  *)
(* system passes the size at which solve takes the sparse path.  Node k is *)
(* labelled with the decimal numeral of k; the k-th current source I<k>    *)
(* runs from node k to ground and the k-th resistor R<k> joins node k to   *)
(* ground, for the first MaxLargeR nodes.  scipy may or may not be         *)
(* installed.                                                              *)
(***************************************************************************)
Numeral(k) ==
    IF k < 10 THEN <<DigitChars[k + 1]>>
    ELSE <<DigitChars[(k \div 10) + 1], DigitChars[(k % 10) + 1]>>

InitLarge ==
    /\ InitCircuit
    /\ HAS_SCIPY \in BOOLEAN
    /\ token = <<>>
    /\ parsed = NoResult
    /\ lines = <<>>
    /\ loaded = NoResult

LargeAddISource ==
    /\ Len(isources) < MaxLarge
    /\ add_isource(<<"I">> \o Numeral(Len(isources) + 1),
                   Numeral(Len(isources) + 1), <<"0">>, <<1, 200>>)

LargeAddResistor ==
    /\ Len(resistors) < MaxLargeR
    /\ Len(resistors) < Len(isources)
    /\ add_resistor(<<"R">> \o Numeral(Len(resistors) + 1),
                    Numeral(Len(resistors) + 1), <<"0">>, Rat(1000))

NextLarge == LargeAddISource \/ LargeAddResistor \/ SolveDense \/ SolveSparse

SpecLarge == InitLarge /\ [][NextLarge]_vars

\* the circuit assembles and its matrix is singular
IsSingularCircuit ==
    /\ assemble_mna(resistors, vsources, isources, nodes).error = "none"
    /\ Factorise(assemble_mna(resistors, vsources, isources, nodes).A,
                 assemble_mna(resistors, vsources, isources, nodes).z).singular

(***************************************************************************)
(* C6: solve over a singular system raises the solver error (RuntimeError) *)
(* on the dense and on the sparse path, and never returns a result that    *)
(* holds NaN.                                                              *)
(***************************************************************************)
C6_SingularRaises ==
    (call = "solve" /\ IsSingularCircuit) => outcome.status = "RuntimeError"

====
